---- MODULE Spec2Model ----
(***************************************************************************)
(* Model of scripts/fetch-realtime.js (batch version): the deadline-bound  *)
(* polling loop fetchBatchWithRetry, the merge of a freshly fetched row    *)
(* into the persisted series in processBatchData, and the main loop that   *)
(* drives both batch after batch.                                          *)
(*                                                                         *)
(* JavaScript values are records [t, s, n]: t is the kind, s the text of a *)
(* string as a sequence of one-character strings, n the value of a finite  *)
(* number.  Time is in milliseconds.                                       *)
(***************************************************************************)
EXTENDS Integers, Sequences, FiniteSets, TLC

(***************************************************************************)
(* JavaScript values                                                       *)
(***************************************************************************)
Undefined == [t |-> "undefined", s |-> <<>>, n |-> 0]

Null == [t |-> "null", s |-> <<>>, n |-> 0]

NaN == [t |-> "nan", s |-> <<>>, n |-> 0]

Infinity == [t |-> "infinity", s |-> <<>>, n |-> 0]

\* the exception a statement raises instead of producing a value
Throw == [t |-> "throw", s |-> <<>>, n |-> 0]

Str(cs) == [t |-> "string", s |-> cs, n |-> 0]

Num(i) == [t |-> "number", s |-> <<>>, n |-> i]

\* the provider's placeholder, and the Missing sentinel of a stored row
Dash == Str(<<"-">>)

Digits == <<"0", "1", "2", "3", "4", "5", "6", "7", "8", "9">>

IsDigit(c) == \E i \in 1..10 : Digits[i] = c

DigitVal(c) == (CHOOSE i \in 1..10 : Digits[i] = c) - 1

RECURSIVE DecVal(_)
DecVal(cs) ==
    IF cs = <<>> THEN 0
    ELSE 10 * DecVal(SubSeq(cs, 1, Len(cs) - 1)) + DigitVal(cs[Len(cs)])

\* ToBoolean
Truthy(v) ==
    CASE v.t = "string" -> v.s # <<>>
      [] v.t = "number" -> v.n # 0
      [] v.t = "infinity" -> TRUE
      [] OTHER -> FALSE

\* Number(v) for the texts the model feeds it: blank text is 0, a decimal
\* numeral its value, "Infinity" the non-finite number, any other text NaN
NumberOf(v) ==
    CASE v.t = "number" -> v
      [] v.t = "infinity" -> v
      [] v.t = "null" -> Num(0)
      [] v.t = "string" ->
            IF \A i \in 1..Len(v.s) : v.s[i] = " " THEN Num(0)
            ELSE IF \A i \in 1..Len(v.s) : IsDigit(v.s[i]) THEN Num(DecVal(v.s))
            ELSE IF v.s = <<"I", "n", "f", "i", "n", "i", "t", "y">> THEN Infinity
            ELSE NaN
      [] OTHER -> NaN

\* JSON.parse(JSON.stringify(v)) of one array element
JsonValue(v) ==
    IF v.t \in {"infinity", "nan", "undefined"} THEN Null ELSE v

(***************************************************************************)
(* Date.prototype.toISOString().slice(0, 10) of a millisecond time stamp   *)
(***************************************************************************)
MsPerDay == 86400000

Pad(k, width) == [i \in 1..width |-> Digits[((k \div (10 ^ (width - i))) % 10) + 1]]

IsoDate(ms) ==
    LET z == (ms \div MsPerDay) + 719468
        era == z \div 146097
        doe == z - era * 146097
        yoe == (doe - doe \div 1460 + doe \div 36524 - doe \div 146096) \div 365
        doy == doe - (365 * yoe + yoe \div 4 - yoe \div 100)
        mp == (5 * doy + 2) \div 153
        d == doy - (153 * mp + 2) \div 5 + 1
        m == IF mp < 10 THEN mp + 3 ELSE mp - 9
        y == yoe + era * 400 + (IF m <= 2 THEN 1 ELSE 0)
    IN  Pad(y, 4) \o <<"-">> \o Pad(m, 2) \o <<"-">> \o Pad(d, 2)

(***************************************************************************)
(* Pure functions of the script                                            *)
(***************************************************************************)
formatDate(dateStr) ==
    IF ~Truthy(dateStr) THEN Null
    ELSE LET digits == SelectSeq(dateStr.s, IsDigit)
         IN  Str(SubSeq(digits, 1, IF Len(digits) < 8 THEN Len(digits) ELSE 8))

parseValue(val) ==
    IF val = Dash \/ val.t = "null" \/ val.t = "undefined" \/ val = Str(<<>>)
    THEN Dash
    ELSE LET num == NumberOf(val)
         IN  IF num.t = "nan" THEN Dash ELSE num

\* data.z && data.z !== '-' && !isNaN(Number(data.z))
hasValidPrice(data) ==
    Truthy(data.z) /\ data.z # Dash /\ NumberOf(data.z).t # "nan"

\* Throw stands for the RangeError of toISOString on an invalid Date and for
\* the TypeError of includes on a value that is not a string
parseDate(data) ==
    LET fromTlong == ~Truthy(data.d) /\ Truthy(data.tlong)
        ms == NumberOf(data.tlong)
        d1 == IF fromTlong
              THEN IF ms.t # "number" THEN Throw
                   ELSE Str(SelectSeq(IsoDate(ms.n), LAMBDA c : c # "-"))
              ELSE data.d
        d2 == IF Truthy(d1) /\ d1.t = "string"
              THEN Str(SelectSeq(d1.s, LAMBDA c : c # "/"))
              ELSE d1
    IN  IF d1 = Throw \/ (Truthy(d1) /\ d1.t # "string") THEN Throw
        ELSE formatDate(d2)

findIndex_skipFirst(existingData, todayDate) ==
    IF \E j \in 2..Len(existingData) : existingData[j][1] = todayDate
    THEN CHOOSE j \in 2..Len(existingData) :
            /\ existingData[j][1] = todayDate
            /\ \A h \in 2..(j - 1) : existingData[h][1] # todayDate
    ELSE 0

\* existingData.findIndex(row => row[0] === todayDate), 0 standing for -1
findIndex(existingData, todayDate) ==
    IF \E j \in 1..Len(existingData) : existingData[j][1] = todayDate
    THEN CHOOSE j \in 1..Len(existingData) :
            /\ existingData[j][1] = todayDate
            /\ \A h \in 1..(j - 1) : existingData[h][1] # todayDate
    ELSE 0

Resolve_newWins(existing, val) == val

\* the callback of newRow.map: one slot of the updated row
Resolve(existing, val) ==
    IF val = Dash /\ existing # Dash THEN existing ELSE val

Merge_pushAlways(existingData, newRow) == Append(existingData, newRow)

\* the updated row is taken out of its place and pushed
Merge_moveToEnd(existingData, newRow) ==
    LET existingIdx == findIndex(existingData, newRow[1])
    IN  IF existingIdx = 0
        THEN Append(existingData, newRow)
        ELSE Append(SelectSeq(existingData, LAMBDA row : row[1] # newRow[1]),
                    [j \in 1..6 |-> Resolve(existingData[existingIdx][j], newRow[j])])

\* the merge of processBatchData: push the new row, or update the row of its date
Merge(existingData, newRow) ==
    LET existingIdx == findIndex(existingData, newRow[1])
    IN  IF existingIdx = 0
        THEN Append(existingData, newRow)
        ELSE [existingData EXCEPT ![existingIdx] =
                [j \in 1..6 |-> Resolve(existingData[existingIdx][j], newRow[j])]]

\* the row built from a record whose date was derived
NewRow(todayDate, data) ==
    <<todayDate, parseValue(data.o), parseValue(data.h), parseValue(data.l),
      parseValue(data.z), parseValue(data.v)>>

chunkArray(array, size) ==
    [j \in 1..((Len(array) + size - 1) \div size) |->
        SubSeq(array, (j - 1) * size + 1,
               IF j * size < Len(array) THEN j * size ELSE Len(array))]

(***************************************************************************)
(* The series store: one file per stock id.  A file is absent, holds text  *)
(* that JSON.parse rejects (garbage), or holds JSON: an array of rows or   *)
(* some other JSON value (object).                                         *)
(***************************************************************************)
AbsentFile == [k |-> "absent", rows |-> <<>>]

GarbageFile == [k |-> "garbage", rows |-> <<>>]

ObjectFile == [k |-> "object", rows |-> <<>>]

ArrayFile(rows) == [k |-> "array", rows |-> rows]

\* what loadExistingData returns: the parsed content, [] for no file and in the catch
loadExistingData(file) ==
    IF file.k \in {"absent", "garbage"} THEN ArrayFile(<<>>) ELSE file

\* what saveData leaves on disk, as JSON.parse reads it back
saveData(data) ==
    ArrayFile([r \in 1..Len(data) |-> [j \in 1..6 |-> JsonValue(data[r][j])]])

(***************************************************************************)
(* The Map bestDataMap                                                     *)
(***************************************************************************)
MapSet(m, key, val) ==
    [x \in (DOMAIN m) \cup {key} |-> IF x = key THEN val ELSE m[x]]

\* that bestDataMap.get(key) is truthy
MapHas(m, key) == key \in DOMAIN m /\ m[key] # Null

(***************************************************************************)
(* Program constants                                                       *)
(***************************************************************************)
RETRY_INTERVAL == 3000

BATCH_FETCH_TIME == 30000

\* the timeout option of axios.get in fetchBatchStockData
CALL_TIMEOUT == 15000

(***************************************************************************)
(* Bounds of the model                                                     *)
(***************************************************************************)
\* symbols per batch (30 in the script), small enough for a second batch
BATCH_SIZE == 2

\* records in one provider response
MaxRecords == 2

\* runs of the script, one after the other
MaxRuns == 2

\* merges applied to one series in the merge scenario
MaxMerges == 2

\* every stock id of the model
StockIds == {"A", "B", "C"}

(***************************************************************************)
(* Provider records.  A shape is a record without its symbol code.         *)
(***************************************************************************)
T20250101 == <<"2", "0", "2", "5", "0", "1", "0", "1">>

T20250102 == <<"2", "0", "2", "5", "0", "1", "0", "2">>

Shape(z, d, tlong, o, h, l, v) ==
    [z |-> z, d |-> d, tlong |-> tlong, o |-> o, h |-> h, l |-> l, v |-> v]

Quote(c, sh) ==
    [c |-> c, z |-> sh.z, d |-> sh.d, tlong |-> sh.tlong,
     o |-> sh.o, h |-> sh.h, l |-> sh.l, v |-> sh.v]

\* a trade: every field numeric text
ValidShape ==
    Shape(Str(<<"1", "0", "4">>), Str(T20250101), Undefined, Str(<<"1", "0", "0">>),
          Str(<<"1", "0", "5">>), Str(<<"9", "9">>), Str(<<"5", "0", "0", "0">>))

\* no trade yet: placeholder prices, a volume
DashShape ==
    Shape(Dash, Str(T20250101), Undefined, Dash, Dash, Dash, Str(<<"6", "0", "0", "0">>))

\* a date written with separators and one-digit month and day
ShortDateShape ==
    Shape(Dash, Str(<<"2", "0", "2", "5", "/", "1", "/", "5">>), Undefined,
          Dash, Dash, Dash, Str(<<"7">>))

\* no date field, a time stamp of one day after the epoch
TlongShape ==
    Shape(Str(<<"5", "5">>), Undefined, Str(<<"8", "6", "4", "0", "0", "0", "0", "0">>),
          Dash, Dash, Dash, Dash)

\* no date field, a time stamp that is no number
BadTlongShape ==
    Shape(Str(<<"5", "5">>), Undefined, Str(<<"x">>), Dash, Dash, Dash, Dash)

\* neither date nor time stamp
NoDateShape ==
    Shape(Str(<<"5", "5">>), Undefined, Undefined, Dash, Dash, Dash, Dash)

\* a price text that Number reads as a non-finite number
InfinityShape ==
    Shape(Str(<<"I", "n", "f", "i", "n", "i", "t", "y">>), Str(T20250101), Undefined,
          Dash, Dash, Dash, Dash)

\* a price that is the number 0, not a text
ZeroShape ==
    Shape(Num(0), Str(T20250101), Undefined, Dash, Dash, Dash, Str(<<"8", "0", "0", "0">>))

\* the series a run over ValidShape leaves behind
SeededFile ==
    ArrayFile(<< <<Str(T20250101), Num(100), Num(105), Num(99), Num(104), Num(5000)>> >>)

(***************************************************************************)
(* Scenarios: what the provider and the disk may do in one check           *)
(***************************************************************************)
\* the symbol universe main works on, in input order
Stocks(sc) == IF sc \in {"poll", "fold"} THEN <<"A", "B", "C">> ELSE <<"A", "B">>

\* how often the script is run
Runs(sc) == IF sc \in {"poll", "fold", "direct"} THEN 1 ELSE MaxRuns

\* the most records one response carries
RecordsPerResponse(sc) == IF sc \in {"poll", "fold"} THEN MaxRecords ELSE 1

Shapes(sc) ==
    IF sc = "poll" THEN {ValidShape, DashShape}
    ELSE IF sc = "fold" THEN {ValidShape, NoDateShape, DashShape, ZeroShape}
    ELSE {ValidShape, DashShape, ShortDateShape, TlongShape, BadTlongShape,
          NoDateShape, InfinityShape}

\* symbol codes the provider may answer with besides those of the batch
ForeignCodes(sc) ==
    IF sc = "poll" THEN {"Z"} ELSE IF sc = "fold" THEN StockIds ELSE {}

\* how long one call may take; none longer than CALL_TIMEOUT
CallDurations(sc) == IF sc = "poll" THEN {5000, CALL_TIMEOUT} ELSE {CALL_TIMEOUT}

RawQuotes(sc, ids) ==
    {Quote(c, sh) : c \in ids \cup ForeignCodes(sc), sh \in Shapes(sc)}
        \cup (IF sc = "poll" THEN {Quote("", ValidShape)} ELSE {})

\* a response: the call failed, or answered without msgArray, or with one
Responses(sc, ids) ==
    {[kind |-> "error", msgArray |-> <<>>], [kind |-> "nomsg", msgArray |-> <<>>]}
        \cup {[kind |-> "ok", msgArray |-> m] :
                m \in UNION {[1..n -> RawQuotes(sc, ids)] : n \in 0..RecordsPerResponse(sc)}}

(***************************************************************************)
(* State                                                                   *)
(***************************************************************************)
VARIABLES
    scenario,       \* which provider and disk behaviours are drawn from
    store,          \* public/data/<id>/realtime.json, per stock id
    run,            \* runs of the script started so far
    pc,             \* where main is: idle, main, poll, fetching, sleeping,
                    \* process, done, aborted
    error,          \* the exception that reached main().catch, or none
    i,              \* main: index of the current batch, from 1
    elapsed,        \* fetchBatchWithRetry: Date.now() - startTime
    bestDataMap,    \* fetchBatchWithRetry: stock id -> best record or null
    validStockIds,  \* fetchBatchWithRetry: ids that got a valid price
    retryCount,     \* fetchBatchWithRetry: calls issued for this batch
    lastFetch,      \* how the latest call of this batch ended: none, error, nomsg, ok
    lastData,       \* fetchBatchWithRetry: dataArray, from the return of the call
                    \* to the end of its loop pass (kept in the scenario "fold")
    k,              \* processBatchData: index of the current stock, from 1
    saved,          \* ids passed to saveData for this batch, in order
    mData,          \* merge scenario: the series
    mOld,           \* merge scenario: the series before the latest merge
    mRow,           \* merge scenario: the row merged last
    mCount          \* merge scenario: merges done

mainVars == <<store, run, pc, error, i, elapsed, bestDataMap, validStockIds,
              retryCount, lastFetch, lastData, k, saved>>

mergeVars == <<mData, mOld, mRow, mCount>>

vars == <<scenario, store, run, pc, error, i, elapsed, bestDataMap, validStockIds,
          retryCount, lastFetch, lastData, k, saved, mData, mOld, mRow, mCount>>

\* the batches of main; in the scenario "direct" fetchBatchWithRetry and
\* processBatchData are handed one batch of no stocks instead
batches ==
    IF scenario = "direct" THEN << <<>> >> ELSE chunkArray(Stocks(scenario), BATCH_SIZE)

\* the batch main is working on
batch == batches[i]

BatchIds == {batch[j] : j \in 1..Len(batch)}

EmptyMap == [x \in {} |-> Null]

NoRow == <<>>

InitWith(sc, files, series) ==
    /\ scenario = sc
    /\ store \in {f \in [StockIds -> files] :
                    \A id \in StockIds \ {"A"} : f[id] = AbsentFile}
    /\ run = 0
    /\ pc = "idle"
    /\ error = "none"
    /\ i = 0
    /\ elapsed = 0
    /\ bestDataMap = EmptyMap
    /\ validStockIds = {}
    /\ retryCount = 0
    /\ lastFetch = "none"
    /\ lastData = <<>>
    /\ k = 0
    /\ saved = <<>>
    /\ mData = series
    /\ mOld = <<>>
    /\ mRow = NoRow
    /\ mCount = 0

InitMain(sc, files) == InitWith(sc, files, <<>>)

\* polling scenario: nothing on disk yet
Init == InitMain("poll", {AbsentFile})

\* store scenario: every kind of file on disk for the first stock
InitRuns == InitMain("runs", {AbsentFile, GarbageFile, ObjectFile, SeededFile})

(***************************************************************************)
(* main                                                                    *)
(***************************************************************************)
\* the script is started: main up to its for loop
StartRun ==
    /\ pc \in {"idle", "done", "aborted"}
    /\ run < Runs(scenario)
    /\ run' = run + 1
    /\ pc' = "main"
    /\ error' = "none"
    /\ i' = 1
    /\ UNCHANGED <<scenario, store, elapsed, bestDataMap, validStockIds, retryCount,
                   lastFetch, lastData, k, saved>>
    /\ UNCHANGED mergeVars

\* the test of the for loop, and fetchBatchWithRetry up to its while loop
MainLoop ==
    /\ pc = "main"
    /\ IF i <= Len(batches)
       THEN /\ pc' = "poll"
            /\ elapsed' = 0
            /\ bestDataMap' = [id \in BatchIds |-> Null]
            /\ validStockIds' = {}
            /\ retryCount' = 0
            /\ lastFetch' = "none"
            /\ saved' = <<>>
       ELSE /\ pc' = "done"
            /\ UNCHANGED <<elapsed, bestDataMap, validStockIds, retryCount,
                           lastFetch, saved>>
    /\ UNCHANGED <<scenario, store, run, error, i, k, lastData>>
    /\ UNCHANGED mergeVars

(***************************************************************************)
(* fetchBatchWithRetry                                                     *)
(***************************************************************************)
InTime_twice(ms) == ms < 2 * BATCH_FETCH_TIME

\* the condition of the while loop
InTime(ms) == ms < BATCH_FETCH_TIME

\* the test of the while loop: issue the next call, or return the map
PollCheck ==
    /\ pc = "poll"
    /\ IF InTime(elapsed)
       THEN /\ retryCount' = retryCount + 1
            /\ pc' = "fetching"
            /\ k' = k
       ELSE /\ pc' = "process"
            /\ k' = 1
            /\ retryCount' = retryCount
    /\ lastData' = <<>>
    /\ UNCHANGED <<scenario, store, run, error, i, elapsed, bestDataMap, validStockIds,
                   lastFetch, saved>>
    /\ UNCHANGED mergeVars

fetchBatchStockData_rethrow(resp) ==
    [threw |-> resp.kind = "error",
     dataArray |-> IF resp.kind = "ok" THEN resp.msgArray ELSE <<>>]

\* fetchBatchStockData: the array the call resolves to, and whether it rejects
fetchBatchStockData(resp) ==
    [threw |-> FALSE,
     dataArray |-> IF resp.kind = "ok" THEN resp.msgArray ELSE <<>>]

\* a valid record is stored only for a code that is not satisfied yet
foldRecord_firstValidStays(st, data) ==
    IF data.c = "" THEN st
    ELSE IF hasValidPrice(data)
         THEN IF data.c \in st.valid THEN st
              ELSE [map |-> MapSet(st.map, data.c, data), valid |-> st.valid \cup {data.c}]
         ELSE IF ~MapHas(st.map, data.c)
              THEN [map |-> MapSet(st.map, data.c, data), valid |-> st.valid]
              ELSE st

\* a placeholder record is stored for a code that is not satisfied yet
foldRecord_laterPlaceholder(st, data) ==
    IF data.c = "" THEN st
    ELSE IF hasValidPrice(data)
         THEN [map |-> MapSet(st.map, data.c, data), valid |-> st.valid \cup {data.c}]
         ELSE IF data.c \notin st.valid
              THEN [map |-> MapSet(st.map, data.c, data), valid |-> st.valid]
              ELSE st

\* the body of the for loop over dataArray
foldRecord(st, data) ==
    IF data.c = "" THEN st
    ELSE IF hasValidPrice(data)
         THEN [map |-> MapSet(st.map, data.c, data), valid |-> st.valid \cup {data.c}]
         ELSE IF ~MapHas(st.map, data.c)
              THEN [map |-> MapSet(st.map, data.c, data), valid |-> st.valid]
              ELSE st

RECURSIVE foldAll(_, _)
foldAll(st, dataArray) ==
    IF dataArray = <<>> THEN st
    ELSE foldAll(foldRecord(st, Head(dataArray)), Tail(dataArray))

\* the early exit test
AllValid(valid, stocks) == Cardinality(valid) = Len(stocks)

\* the call returns: fold its records, then leave the loop, sleep or loop
FetchReturns ==
    /\ pc = "fetching"
    /\ \E dur \in CallDurations(scenario), resp \in Responses(scenario, BatchIds) :
         LET got == fetchBatchStockData(resp)
             st == foldAll([map |-> bestDataMap, valid |-> validStockIds], got.dataArray)
         IN  /\ elapsed' = elapsed + dur
             /\ lastFetch' = resp.kind
             /\ lastData' = IF scenario = "fold" THEN got.dataArray ELSE <<>>
             /\ IF got.threw
                THEN /\ pc' = "aborted"
                     /\ error' = "rejected"
                     /\ UNCHANGED <<bestDataMap, validStockIds, k>>
                ELSE /\ bestDataMap' = st.map
                     /\ validStockIds' = st.valid
                     /\ error' = error
                     /\ IF AllValid(st.valid, batch)
                        THEN pc' = "process" /\ k' = 1
                        ELSE IF InTime(elapsed')
                             THEN pc' = "sleeping" /\ k' = k
                             ELSE pc' = "poll" /\ k' = k
    /\ UNCHANGED <<scenario, store, run, i, retryCount, saved>>
    /\ UNCHANGED mergeVars

\* delay(RETRY_INTERVAL) is over
SleepEnds ==
    /\ pc = "sleeping"
    /\ elapsed' = elapsed + RETRY_INTERVAL
    /\ pc' = "poll"
    /\ lastData' = <<>>
    /\ UNCHANGED <<scenario, store, run, error, i, bestDataMap, validStockIds,
                   retryCount, lastFetch, k, saved>>
    /\ UNCHANGED mergeVars

(***************************************************************************)
(* processBatchData                                                        *)
(***************************************************************************)
processStock_noDataCheck(file, data) ==
    IF data \in {Null, Undefined}
    THEN [act |-> "save", file |-> saveData(loadExistingData(file).rows)]
    ELSE LET todayDate == parseDate(data)
             existingData == loadExistingData(file)
         IN  IF todayDate = Throw THEN [act |-> "RangeError", file |-> file]
             ELSE IF ~Truthy(todayDate) THEN [act |-> "nodate", file |-> file]
             ELSE IF existingData.k # "array" THEN [act |-> "TypeError", file |-> file]
             ELSE [act |-> "save",
                   file |-> saveData(Merge(existingData.rows, NewRow(todayDate, data)))]

\* one pass of the for loop over the stocks of the batch: what becomes of the
\* stock's file, and the exception that ends the run, if any
processStock(file, data) ==
    IF data \in {Null, Undefined}
    THEN [act |-> "nodata", file |-> file]
    ELSE LET todayDate == parseDate(data)
             existingData == loadExistingData(file)
         IN  IF todayDate = Throw THEN [act |-> "RangeError", file |-> file]
             ELSE IF ~Truthy(todayDate) THEN [act |-> "nodate", file |-> file]
             ELSE IF existingData.k # "array" THEN [act |-> "TypeError", file |-> file]
             ELSE [act |-> "save",
                   file |-> saveData(Merge(existingData.rows, NewRow(todayDate, data)))]

\* processBatchData is handed the stocks of main, not those of the batch
ProcessStock_allStocks ==
    /\ pc = "process"
    /\ k <= Len(batch)
    /\ LET id == Stocks(scenario)[k]
           data == IF id \in DOMAIN bestDataMap THEN bestDataMap[id] ELSE Undefined
           res == processStock(store[id], data)
       IN  /\ store' = [store EXCEPT ![id] = res.file]
           /\ saved' = IF res.act = "save" THEN Append(saved, id) ELSE saved
           /\ IF res.act \in {"RangeError", "TypeError"}
              THEN pc' = "aborted" /\ error' = res.act /\ k' = k
              ELSE pc' = pc /\ error' = error /\ k' = k + 1
    /\ lastData' = <<>>
    /\ UNCHANGED <<scenario, run, i, elapsed, bestDataMap, validStockIds, retryCount,
                   lastFetch>>
    /\ UNCHANGED mergeVars

ProcessStock ==
    /\ pc = "process"
    /\ k <= Len(batch)
    /\ LET id == batch[k]
           res == processStock(store[id], bestDataMap[id])
       IN  /\ store' = [store EXCEPT ![id] = res.file]
           /\ saved' = IF res.act = "save" THEN Append(saved, id) ELSE saved
           /\ IF res.act \in {"RangeError", "TypeError"}
              THEN pc' = "aborted" /\ error' = res.act /\ k' = k
              ELSE pc' = pc /\ error' = error /\ k' = k + 1
    /\ lastData' = <<>>
    /\ UNCHANGED <<scenario, run, i, elapsed, bestDataMap, validStockIds, retryCount,
                   lastFetch>>
    /\ UNCHANGED mergeVars

\* main goes on to the next batch without waiting for processBatchData
ProcessDone_early ==
    /\ pc = "process"
    /\ i' = i + 1
    /\ pc' = "main"
    /\ lastData' = <<>>
    /\ UNCHANGED <<scenario, store, run, error, elapsed, bestDataMap, validStockIds,
                   retryCount, lastFetch, k, saved>>
    /\ UNCHANGED mergeVars

\* processBatchData returns: the for loop of main goes on
ProcessDone ==
    /\ pc = "process"
    /\ k > Len(batch)
    /\ i' = i + 1
    /\ pc' = "main"
    /\ lastData' = <<>>
    /\ UNCHANGED <<scenario, store, run, error, elapsed, bestDataMap, validStockIds,
                   retryCount, lastFetch, k, saved>>
    /\ UNCHANGED mergeVars

Next ==
    \/ StartRun
    \/ MainLoop
    \/ PollCheck
    \/ FetchReturns
    \/ SleepEnds
    \/ ProcessStock
    \/ ProcessDone

Spec == Init /\ [][Next]_vars

SpecRuns == InitRuns /\ [][Next]_vars

\* fold scenario: two kinds of valid and of placeholder records, for the
\* stocks of the batch and of the other batch; and the direct call with a
\* batch of no stocks
InitFold == InitMain("fold", {AbsentFile}) \/ InitMain("direct", {AbsentFile})

SpecFold == InitFold /\ [][Next]_vars

(***************************************************************************)
(* Merge scenario: the merge of processBatchData applied to one series,    *)
(* from the empty series on, with rows of every pattern of known and       *)
(* Missing slots                                                           *)
(***************************************************************************)
MergeDates == {T20250101, T20250102}

MergeNumbers == {104, 105}

MergeRows ==
    {<<Str(d)>> \o [j \in 1..5 |-> IF j \in known THEN Num(n) ELSE Dash] :
        d \in MergeDates, known \in SUBSET (1..5), n \in MergeNumbers}

InitMerge ==
    /\ InitMain("merge", {AbsentFile})

MergeStep ==
    /\ scenario = "merge"
    /\ mCount < MaxMerges
    /\ \E newRow \in MergeRows :
         /\ mOld' = mData
         /\ mData' = Merge(mData, newRow)
         /\ mRow' = newRow
    /\ mCount' = mCount + 1
    /\ UNCHANGED scenario
    /\ UNCHANGED mainVars

NextMerge == MergeStep

SpecMerge == InitMerge /\ [][NextMerge]_vars

\* the merges applied to a series of two days: the first of MergeDates, then
\* an earlier day
T20241231 == <<"2", "0", "2", "4", "1", "2", "3", "1">>

SeedSeries ==
    << <<Str(T20250101), Num(100), Num(105), Num(99), Num(104), Num(5000)>>,
       <<Str(T20241231), Num(98), Dash, Dash, Num(98), Dash>> >>

InitSeries == InitWith("merge", {AbsentFile}, SeedSeries)

SpecSeries == InitSeries /\ [][NextMerge]_vars

(***************************************************************************)
(* Properties                                                              *)
(***************************************************************************)
IsNumber(v) == v.t = "number"

\* that this step passes id to saveData
Saves(id) == Len(saved') > Len(saved) /\ saved'[Len(saved')] = id

C2_PreferenceLaw ==
    mCount > 0 =>
        \A x \in 1..Len(mOld) :
            mOld[x][1] = mRow[1] =>
                \A j \in 2..6 :
                    mData[x][j] = IF mRow[j] = Dash /\ mOld[x][j] # Dash
                                  THEN mOld[x][j]
                                  ELSE mRow[j]

\* a merge into a row of the same date in which one slot kept its old value,
\* one known value replaced another, one replaced Missing, and one stayed Missing
C2_Witness ==
    /\ mCount > 0
    /\ \E x \in 1..Len(mOld) :
          /\ mOld[x][1] = mRow[1]
          /\ \E j \in 2..6 : mRow[j] = Dash /\ IsNumber(mOld[x][j])
          /\ \E j \in 2..6 : IsNumber(mRow[j]) /\ IsNumber(mOld[x][j])
                                /\ mRow[j] # mOld[x][j]
          /\ \E j \in 2..6 : IsNumber(mRow[j]) /\ mOld[x][j] = Dash
          /\ \E j \in 2..6 : mRow[j] = Dash /\ mOld[x][j] = Dash

\* C3: a series built from the empty series by merges never holds two rows
\* of the same date.
C3_Dedup ==
    \A x, y \in 1..Len(mData) : x # y => mData[x][1] # mData[y][1]

\* two merges of rows of one date left one row
C3_Witness == mCount >= 2 /\ Len(mData) = 1

\* C4: a numeric slot of a persisted row that holds a number holds a number
\* after every step of every later run, in a row of the same date.
C4_KnownStaysKnown ==
    [][\A id \in StockIds :
          store[id].k = "array" =>
              \A r \in 1..Len(store[id].rows), j \in 2..6 :
                  IsNumber(store[id].rows[r][j]) =>
                      /\ store'[id].k = "array"
                      /\ \E q \in 1..Len(store'[id].rows) :
                            /\ store'[id].rows[q][1] = store[id].rows[r][1]
                            /\ IsNumber(store'[id].rows[q][j])]_vars

\* C5: when fetchBatchWithRetry returns, no more than the batch deadline
\* plus one call timeout has passed since it started.
C5_ReturnsInTime ==
    pc = "process" => elapsed <= BATCH_FETCH_TIME + CALL_TIMEOUT

\* it returned after the deadline, its last call having outlasted it
C5_Witness == pc = "process" /\ elapsed > BATCH_FETCH_TIME /\ retryCount >= 2

\* C6: a tick after which every stock of the batch has a valid price ends
\* the polling: no further call, no sleep.
C6_EarlyExit ==
    [][(pc = "fetching" /\ BatchIds \subseteq validStockIds') => pc' = "process"]_vars

\* C7: the date of every persisted row is made of exactly 8 digits.
C7_EightDigitDates ==
    \A id \in StockIds :
        store[id].k = "array" =>
            \A r \in 1..Len(store[id].rows) :
                LET date == store[id].rows[r][1]
                IN  /\ date.t = "string"
                    /\ Len(date.s) = 8
                    /\ \A c \in 1..8 : IsDigit(date.s[c])

\* C8: merging the row merged last once more leaves the series as it is.
C8_Idempotent ==
    mCount > 0 => Merge(mData, mRow) = mData

\* the row was merged into a series that had a row of its date, and changed it
C8_Witness ==
    /\ mCount > 0
    /\ \E x \in 1..Len(mOld) : mOld[x][1] = mRow[1] /\ mOld[x] # mData[x]

\* C9: a run is never ended by the load or the search of a stock's stored
\* series, whatever its file holds.
C9_CorruptStoreTolerated ==
    ~(pc = "aborted" /\ error = "TypeError")

\* C10: a call that fails leaves the best records and the valid ids as they
\* were, and the loop goes on (to the sleep, or to its test when the
\* deadline has passed); the run is not ended.
C10_FailedCallIsEmptyTick ==
    [][(pc = "fetching" /\ lastFetch' = "error")
          => /\ bestDataMap' = bestDataMap
             /\ validStockIds' = validStockIds
             /\ pc' \in {"sleeping", "poll"}
             /\ error' = "none"]_vars

\* after a failed call the next call is out, with an earlier record still held
C10_Witness ==
    /\ pc = "fetching"
    /\ lastFetch = "error"
    /\ \E id \in BatchIds : MapHas(bestDataMap, id)

\* C11: the batches are handled strictly one after another. A call is issued
\* only from the loop test of fetchBatchWithRetry, so never while another
\* call of a tick is in flight, and, for a batch after the first, only after
\* the loop of processBatchData over the previous batch has run to its end;
\* a file of the store changes only in a step of processBatchData.
C11_Sequential ==
    [][/\ (pc' = "fetching" /\ pc # "fetching") =>
              /\ pc = "poll"
              /\ i' > 1 => k' > Len(batches[i' - 1])
       /\ store' # store => pc = "process" /\ pc' \in {"process", "aborted"}]_vars

\* a call for the second batch is in flight and a stock of the first batch
\* was saved
C11_Witness ==
    /\ pc = "fetching"
    /\ i = 2
    /\ \E id \in {batches[1][x] : x \in 1..Len(batches[1])} : store[id] # AbsentFile

\* C12: whenever fetchBatchWithRetry returns before the batch deadline has
\* elapsed, every stock of the batch has a best row with a valid price.
C12_EarlyReturnAllValid ==
    (pc = "process" /\ elapsed < BATCH_FETCH_TIME) =>
        \A id \in BatchIds :
            MapHas(bestDataMap, id) /\ hasValidPrice(bestDataMap[id])

\* that a date can be derived from the record
Datable(data) == LET todayDate == parseDate(data) IN todayDate # Throw /\ Truthy(todayDate)

\* C13: a returned record from which no date can be derived never changes
\* the state of the batch during polling: it never becomes the best row of a
\* code and never marks a code as satisfied.
C13_UndatableIgnored ==
    /\ \A id \in DOMAIN bestDataMap : MapHas(bestDataMap, id) => Datable(bestDataMap[id])
    /\ \A id \in validStockIds : MapHas(bestDataMap, id) /\ Datable(bestDataMap[id])

\* C14: the sleep between two ticks never extends past the batch deadline:
\* a sleep that is under way ends no later than BATCH_FETCH_TIME after the
\* start of the batch.
C14_SleepWithinDeadline ==
    pc = "sleeping" => elapsed + RETRY_INTERVAL <= BATCH_FETCH_TIME

\* C15: for every record received, hasValidPrice holds exactly when
\* parseValue of its z field yields a number rather than the placeholder.
C15_ValidIffParses ==
    \A x \in 1..Len(lastData) :
        hasValidPrice(lastData[x]) <=> parseValue(lastData[x].z) # Dash

\* the records of the array that carry the code id, in the order received
RecordsOf(dataArray, id) == SelectSeq(dataArray, LAMBDA data : data.c = id)

\* those of them the program takes as having a valid price
ValidOf(dataArray, id) == SelectSeq(dataArray, LAMBDA data : data.c = id /\ hasValidPrice(data))

\* that this step is the return of a call with its fold
FoldStep == pc = "fetching" /\ pc' # "fetching"

\* C16: each valid-price record overwrites the best row of its code and marks
\* the code satisfied, and a satisfied code stays satisfied. After the fold of
\* an array, a code with valid-price records in the array holds the last of
\* them and is satisfied; a satisfied code without one keeps its best row.
\* So the best row returned is the valid-price record received last.
C16_LatestValidWins ==
    [][FoldStep =>
         \A id \in StockIds :
             LET valids == ValidOf(lastData', id)
             IN  /\ valids # <<>> =>
                        /\ MapHas(bestDataMap', id)
                        /\ bestDataMap'[id] = valids[Len(valids)]
                        /\ id \in validStockIds'
                 /\ (valids = <<>> /\ id \in validStockIds) =>
                        /\ bestDataMap'[id] = bestDataMap[id]
                        /\ id \in validStockIds']_vars

\* the second tick brought two different valid-price records of a stock; the
\* best row is the later of the two
C16_Witness ==
    /\ pc = "poll"
    /\ retryCount = 2
    /\ Len(lastData) = 2
    /\ \E id \in BatchIds :
         /\ ValidOf(lastData, id) = lastData
         /\ lastData[1] # lastData[2]
         /\ bestDataMap[id] = lastData[2]
         /\ id \in validStockIds

C18_MergeFrame ==
    mCount > 0 =>
        LET found == {x \in 1..Len(mOld) : mOld[x][1] = mRow[1]}
        IN  IF found = {}
            THEN mData = Append(mOld, mRow)
            ELSE /\ Len(mData) = Len(mOld)
                 /\ \A x \in 1..Len(mOld) :
                      IF x \in found THEN mData[x][1] = mRow[1] ELSE mData[x] = mOld[x]

\* a merge changed the first of three rows
C18_Witness ==
    /\ mCount > 0
    /\ Len(mOld) = 3
    /\ mOld[1][1] = mRow[1]
    /\ mData[1] # mOld[1]

\* C19: handling a batch of no stocks does nothing: no call is issued, no
\* sleep is taken and nothing is saved.
C19_EmptyBatchNoOp ==
    (pc \in {"poll", "fetching", "sleeping", "process"} /\ batch = <<>>) =>
        /\ retryCount = 0
        /\ pc \notin {"fetching", "sleeping"}
        /\ saved = <<>>

\* C20: while a batch is handled, a file of the store changes, and saveData
\* is called, only for a stock of the batch, only in processBatchData, and
\* only for a stock not saved before in this batch; the record of a code
\* outside the batch leads to no save.
C20_OnlyBatchSavedOnce ==
    [][\A id \in StockIds :
          (store'[id] # store[id] \/ Saves(id)) =>
              /\ pc = "process"
              /\ id \in BatchIds
              /\ \A x \in 1..Len(saved) : saved[x] # id]_vars

\* the first batch was processed and its stocks were saved; the datable
\* record of a stock of the other batch is in the map and that stock has no file
C20_Witness ==
    /\ pc = "process"
    /\ i = 1
    /\ k > Len(batch)
    /\ Len(saved) = Len(batch)
    /\ \E id \in StockIds \ BatchIds :
         /\ MapHas(bestDataMap, id)
         /\ Datable(bestDataMap[id])
         /\ store[id] = AbsentFile
====
